---- MODULE Spec2Model ----
(***************************************************************************)
(* commitSolutionFiles (src/scripts/commitSolutionFiles.js): one commit    *)
(* of several files through the Git Data REST API                          *)
(* (ref read -> blobs -> commit read -> tree -> commit -> ref update),     *)
(* followed by the stats update in chrome.storage.local.                   *)
(*                                                                         *)
(* A JavaScript string is a sequence of UTF-16 code units (0..65535), a    *)
(* byte string a sequence of 0..255, a base64 string a sequence of sextet  *)
(* values 0..63 with Pad standing for '='.  A SHA is a positive integer    *)
(* (the position of the object in the remote object store) and Undefined   *)
(* is the JavaScript value undefined.                                      *)
(***************************************************************************)
EXTENDS Integers, Sequences, FiniteSets, TLC

\* ------------------------------------------------------------------ bounds
MaxFiles == 2
MaxPushes == 1

\* ------------------------------------------------------- values and inputs
Undefined == 0
Pad == 64

Procs == {1, 2}

\* code units: 'A' and 'B', e-acute, a CJK ideograph, the two halves of
\* U+1F600.  The first content is one byte of UTF-8 (base64 pads twice), the
\* second is eleven (three full groups, then one padding), the last is a
\* lone surrogate.
SampleContents ==
    { <<65>>, <<233, 20013, 55357, 56832, 65, 66>>, <<55357>> }
FileNames == {"README.md", "sol.py"}
Directory == "MySQL/0584-find-customer-referee"
CommitMsg == "Organize solution files"
ProblemNames == {"0584-find-customer-referee", "0001-two-sum"}
TokenValues == {"", "ghp_token"}

\* --------------------------------------------------------- text encodings
IsHighSurrogate(c) == c >= 55296 /\ c <= 56319
IsLowSurrogate(c) == c >= 56320 /\ c <= 57343

\* encodeURIComponent throws URIError exactly on a lone surrogate
RECURSIVE WellFormed(_)
WellFormed(s) ==
    IF s = <<>> THEN TRUE
    ELSE IF IsHighSurrogate(s[1])
         THEN /\ Len(s) >= 2
              /\ IsLowSurrogate(s[2])
              /\ WellFormed(SubSeq(s, 3, Len(s)))
    ELSE IF IsLowSurrogate(s[1]) THEN FALSE
    ELSE WellFormed(Tail(s))

Utf8Of(cp) ==
    IF cp < 128 THEN <<cp>>
    ELSE IF cp < 2048 THEN <<192 + (cp \div 64), 128 + (cp % 64)>>
    ELSE IF cp < 65536
         THEN <<224 + (cp \div 4096), 128 + ((cp \div 64) % 64),
                128 + (cp % 64)>>
    ELSE <<240 + (cp \div 262144), 128 + ((cp \div 4096) % 64),
           128 + ((cp \div 64) % 64), 128 + (cp % 64)>>

\* unescape(encodeURIComponent(s)): the UTF-8 bytes of s as a binary string
RECURSIVE Utf8Encode(_)
Utf8Encode(s) ==
    IF s = <<>> THEN <<>>
    ELSE IF IsHighSurrogate(s[1])
         THEN Utf8Of(65536 + (s[1] - 55296) * 1024 + (s[2] - 56320))
                  \o Utf8Encode(SubSeq(s, 3, Len(s)))
    ELSE Utf8Of(s[1]) \o Utf8Encode(Tail(s))

\* btoa on a binary string
RECURSIVE Btoa(_)
Btoa(b) ==
    IF Len(b) = 0 THEN <<>>
    ELSE IF Len(b) = 1
         THEN <<b[1] \div 4, (b[1] % 4) * 16, Pad, Pad>>
    ELSE IF Len(b) = 2
         THEN <<b[1] \div 4, (b[1] % 4) * 16 + (b[2] \div 16),
                (b[2] % 16) * 4, Pad>>
    ELSE <<b[1] \div 4, (b[1] % 4) * 16 + (b[2] \div 16),
           (b[2] % 16) * 4 + (b[3] \div 64), b[3] % 64>>
             \o Btoa(SubSeq(b, 4, Len(b)))

\* variant: btoa(file.content), the UTF-8 step left out
EncodeContentNoUtf8(content) == Btoa(content)

\* line 150: btoa(unescape(encodeURIComponent(file.content)))
EncodeContent(content) == Btoa(Utf8Encode(content))

\* the remote's decoding of a blob sent with encoding "base64"
RECURSIVE Base64Decode(_)
Base64Decode(e) ==
    IF Len(e) < 4 THEN <<>>
    ELSE LET b1 == e[1] * 4 + (e[2] \div 16)
             b2 == (e[2] % 16) * 16 + (e[3] \div 4)
             b3 == (e[3] % 4) * 64 + e[4]
         IN  IF e[3] = Pad THEN <<b1>>
             ELSE IF e[4] = Pad THEN <<b1, b2>>
             ELSE <<b1, b2, b3>> \o Base64Decode(SubSeq(e, 5, Len(e)))

\* the text a reader of the blob sees: UTF-8 bytes back to UTF-16 code units
Utf16Of(cp) ==
    IF cp < 65536 THEN <<cp>>
    ELSE <<55296 + ((cp - 65536) \div 1024), 56320 + ((cp - 65536) % 1024)>>

RECURSIVE Utf8Decode(_)
Utf8Decode(b) ==
    IF b = <<>> THEN <<>>
    ELSE IF b[1] < 128 THEN <<b[1]>> \o Utf8Decode(Tail(b))
    ELSE IF b[1] >= 240 /\ Len(b) >= 4
         THEN Utf16Of((b[1] - 240) * 262144 + (b[2] - 128) * 4096
                      + (b[3] - 128) * 64 + (b[4] - 128))
                  \o Utf8Decode(SubSeq(b, 5, Len(b)))
    ELSE IF b[1] >= 224 /\ b[1] < 240 /\ Len(b) >= 3
         THEN <<(b[1] - 224) * 4096 + (b[2] - 128) * 64 + (b[3] - 128)>>
                  \o Utf8Decode(SubSeq(b, 4, Len(b)))
    ELSE IF b[1] >= 192 /\ b[1] < 224 /\ Len(b) >= 2
         THEN <<(b[1] - 192) * 64 + (b[2] - 128)>>
                  \o Utf8Decode(SubSeq(b, 3, Len(b)))
    ELSE <<65533>> \o Utf8Decode(Tail(b))

\* ------------------------------------------------------------------- state
VARIABLES
    storage,          \* chrome.storage.local: key -> value, absent keys absent
    objs,             \* remote object store; the SHA of objs[i] is i
    ref,              \* remote refs/heads/{branch}: SHA of the branch tip
    pushes,           \* commits pushed to the branch by other actors so far
    pc,               \* per invocation: the await it is suspended at
    params,           \* per invocation: the argument of commitSolutionFiles
    token, latestCommitSha, fileEntries, baseTreeSha, newTreeSha,
    newCommitSha, stats,          \* per invocation: the locals of the function
    result, error,    \* per invocation: resolution value / rejection reason
    net,              \* per invocation: requests issued and not yet answered
    calls,            \* per invocation: every request issued, in order
    resps,            \* per invocation: every answer received, in order
    writes            \* every chrome.storage.local.set performed, in order

locals == <<token, latestCommitSha, fileEntries, baseTreeSha, newTreeSha,
            newCommitSha, stats, result>>
remote == <<objs, ref, pushes>>
vars == <<storage, objs, ref, pushes, pc, params, token, latestCommitSha,
          fileEntries, baseTreeSha, newTreeSha, newCommitSha, stats, result,
          error, net, calls, resps, writes>>

\* ----------------------------------------------------------- remote objects
BlobObj(bytes) ==
    [kind |-> "blob", bytes |-> bytes, entries |-> {}, tree |-> Undefined,
     parents |-> <<>>, message |-> ""]
TreeObj(entries) ==
    [kind |-> "tree", bytes |-> <<>>, entries |-> entries, tree |-> Undefined,
     parents |-> <<>>, message |-> ""]
CommitObj(tree, parents, message) ==
    [kind |-> "commit", bytes |-> <<>>, entries |-> {}, tree |-> tree,
     parents |-> parents, message |-> message]

IsKind(sha, kind) == sha \in DOMAIN objs /\ objs[sha].kind = kind

\* blobs and trees are addressed by content; a commit carries its own
\* timestamp and is a new object each time
ShaOf(o) ==
    IF o.kind # "commit" /\ \E i \in DOMAIN objs : objs[i] = o
    THEN CHOOSE i \in DOMAIN objs : objs[i] = o
    ELSE Len(objs) + 1
Store(o) == IF ShaOf(o) \in DOMAIN objs THEN objs ELSE Append(objs, o)

\* a tree is a mapping path -> blob SHA, kept as a set of <<path, sha>>;
\* the entries of a request are laid over the base tree in list order
RECURSIVE ApplyEntries(_, _)
ApplyEntries(tree, entries) ==
    IF entries = <<>> THEN tree
    ELSE ApplyEntries({e \in tree : e[1] # entries[1].path}
                          \cup {<<entries[1].path, entries[1].sha>>},
                      Tail(entries))

\* d is c or has c among its ancestors
RECURSIVE IsDescendant(_, _)
IsDescendant(d, c) ==
    \/ d = c
    \/ /\ IsKind(d, "commit")
       /\ \E i \in DOMAIN objs[d].parents : IsDescendant(objs[d].parents[i], c)

\* -------------------------------------------------------------- requests
NoReq == [op |-> "none"]
RefReadReq == [op |-> "refRead"]
CreateBlobReq(content) ==
    [op |-> "blobCreate", content |-> content, encoding |-> "base64"]
CommitReadReq(sha) == [op |-> "commitRead", sha |-> sha]
\* variant: the tip commit's SHA sent where its tree's SHA belongs
CreateTreeReqCommitAsBase(baseTreeSha_, files) ==
    [op |-> "treeCreate", base_tree |-> ref, tree |-> files]
CreateTreeReq(baseTreeSha_, files) ==
    [op |-> "treeCreate", base_tree |-> baseTreeSha_, tree |-> files]
\* variant: the parent is the branch tip at the time of the commit create
CreateCommitReqCurrentTip(message, treeSha, parentSha) ==
    [op |-> "commitCreate", message |-> message, tree |-> treeSha,
     parents |-> <<ref>>]
CreateCommitReq(message, treeSha, parentSha) ==
    [op |-> "commitCreate", message |-> message, tree |-> treeSha,
     parents |-> <<parentSha>>]
UpdateRefReq(newCommitSha_) == [op |-> "refUpdate", sha |-> newCommitSha_]

\* variant: the path is the bare filename
FileEntryNoDirectory(directory, file, blobSha) ==
    [path |-> file.filename, mode |-> "100644", type |-> "blob",
     sha |-> blobSha]

\* lines 147-157: the entry pushed for a file once its blob SHA is known
FileEntry(directory, file, blobSha) ==
    [path |-> directory \o "/" \o file.filename, mode |-> "100644",
     type |-> "blob", sha |-> blobSha]

\* what fetch and res.json() can yield: a success body, a non-success JSON
\* error body, a body that is not JSON, or a rejected fetch
Outcomes == {"ok", "error", "nonjson", "transport"}

\* ---------------------------------------------------------- initial state
FileSet == [filename : FileNames, content : SampleContents]
FileLists == UNION {[1..n -> FileSet] : n \in 0..MaxFiles}

ProblemOf(p) ==
    IF p = 1 THEN "0584-find-customer-referee" ELSE "0001-two-sum"

ParamSet(p) ==
    [problemName : {ProblemOf(p)}, directory : {Directory},
     files : FileLists, commitMsg : {CommitMsg}]

NoParams ==
    [problemName |-> "", directory |-> "", files |-> <<>>, commitMsg |-> ""]

ParamChoices(p, active) == IF p \in active THEN ParamSet(p) ELSE {NoParams}

\* the repository before the call: one commit holding an older README
InitObjs ==
    << BlobObj(<<111, 108, 100>>),
       TreeObj({<<Directory \o "/" \o "README.md", 1>>}),
       CommitObj(2, <<>>, "Initial commit") >>
InitRef == Len(InitObjs)

EmptyStats == [n \in {} |-> [lastCommitSha |-> Undefined]]
OldStats == [n \in {"0001-two-sum"} |-> [lastCommitSha |-> InitRef]]

MakeStorage(keys, tok, st) ==
    [k \in keys |-> IF k = "leethub_token" THEN tok ELSE st]
InitStorages ==
    {MakeStorage(keys, tok, OldStats) :
        keys \in SUBSET {"leethub_token", "stats"}, tok \in TokenValues}

InitWith(active) ==
    /\ storage \in InitStorages
    /\ objs = InitObjs
    /\ ref = InitRef
    /\ pushes = 0
    /\ pc = [p \in Procs |-> IF p \in active THEN "getToken" ELSE "idle"]
    /\ \E x \in ParamChoices(1, active), y \in ParamChoices(2, active) :
          params = [p \in Procs |-> IF p = 1 THEN x ELSE y]
    /\ token = [p \in Procs |-> ""]
    /\ latestCommitSha = [p \in Procs |-> Undefined]
    /\ fileEntries = [p \in Procs |-> <<>>]
    /\ baseTreeSha = [p \in Procs |-> Undefined]
    /\ newTreeSha = [p \in Procs |-> Undefined]
    /\ newCommitSha = [p \in Procs |-> Undefined]
    /\ stats = [p \in Procs |-> EmptyStats]
    /\ result = [p \in Procs |-> Undefined]
    /\ error = [p \in Procs |-> ""]
    /\ net = [p \in Procs |-> {}]
    /\ calls = [p \in Procs |-> <<>>]
    /\ resps = [p \in Procs |-> <<>>]
    /\ writes = <<>>

\* one call of commitSolutionFiles, already suspended at its first await
Init == InitWith({1})

\* ------------------------------------------------------ steps of the code
\* the answered request r leaves the network, req enters it
Send(p, r, req, label) ==
    /\ pc' = [pc EXCEPT ![p] = label]
    /\ net' = [net EXCEPT ![p] = (@ \ {r}) \cup {req}]
    /\ calls' = [calls EXCEPT ![p] = Append(@, req)]
    /\ error' = error

\* an exception leaves the async function: its promise rejects
Reject(p, r, err) ==
    /\ pc' = [pc EXCEPT ![p] = "rejected"]
    /\ net' = [net EXCEPT ![p] = @ \ {r}]
    /\ calls' = calls
    /\ error' = [error EXCEPT ![p] = err]

Answered(p, r, outcome, sha) ==
    resps' = [resps EXCEPT ![p] =
                 Append(@, [op |-> r.op, outcome |-> outcome, sha |-> sha])]

\* variant: the blobs of all remaining files are requested at once
BlobLoopParallel(p, r, entries, latest) ==
    LET files == params[p].files
        rest == (Len(entries) + 1)..Len(files)
        reqs == [i \in 1..(Len(files) - Len(entries)) |->
                    CreateBlobReq(EncodeContent(
                        files[Len(entries) + i].content))]
    IN  IF rest # {}
        THEN IF \A i \in rest : WellFormed(files[i].content)
             THEN /\ pc' = [pc EXCEPT ![p] = "blobCreate"]
                  /\ net' = [net EXCEPT ![p] =
                                (@ \ {r}) \cup {reqs[i] : i \in DOMAIN reqs}]
                  /\ calls' = [calls EXCEPT ![p] = @ \o reqs]
                  /\ error' = error
             ELSE Reject(p, r, "URIError")
        ELSE Send(p, r, CommitReadReq(latest), "commitRead")

\* variant: the loop stops one file early
BlobLoopOffByOne(p, r, entries, latest) ==
    IF Len(entries) < Len(params[p].files) - 1
    THEN LET file == params[p].files[Len(entries) + 1]
         IN  IF WellFormed(file.content)
             THEN Send(p, r, CreateBlobReq(EncodeContent(file.content)),
                       "blobCreate")
             ELSE Reject(p, r, "URIError")
    ELSE Send(p, r, CommitReadReq(latest), "commitRead")

\* lines 145-161: the loop over files with `entries` already pushed, from the
\* top of an iteration up to the next fetch
BlobLoop(p, r, entries, latest) ==
    IF Len(entries) < Len(params[p].files)
    THEN LET file == params[p].files[Len(entries) + 1]
         IN  IF WellFormed(file.content)
             THEN Send(p, r, CreateBlobReq(EncodeContent(file.content)),
                       "blobCreate")
             ELSE Reject(p, r, "URIError")
    ELSE Send(p, r, CommitReadReq(latest), "commitRead")

\* variant: only an absent key counts as a missing token
GetTokenKeyOnly(p) ==
    /\ pc[p] = "getToken"
    /\ LET data == [k \in DOMAIN storage \cap {"leethub_token"} |-> storage[k]]
           present == "leethub_token" \in DOMAIN data
       IN  /\ IF present
              THEN /\ token' = [token EXCEPT ![p] = data.leethub_token]
                   /\ Send(p, NoReq, RefReadReq, "refRead")
              ELSE /\ token' = token
                   /\ Reject(p, NoReq, "leethub token is undefined")
    /\ UNCHANGED <<storage, remote, params, latestCommitSha, fileEntries,
                   baseTreeSha, newTreeSha, newCommitSha, stats, result,
                   resps, writes>>

\* lines 137-141: the token read resolves
GetToken(p) ==
    /\ pc[p] = "getToken"
    /\ LET data == [k \in DOMAIN storage \cap {"leethub_token"} |-> storage[k]]
           present == "leethub_token" \in DOMAIN data
                      /\ data.leethub_token # ""
       IN  /\ IF present
              THEN /\ token' = [token EXCEPT ![p] = data.leethub_token]
                   /\ Send(p, NoReq, RefReadReq, "refRead")
              ELSE /\ token' = token
                   /\ Reject(p, NoReq, "leethub token is undefined")
    /\ UNCHANGED <<storage, remote, params, latestCommitSha, fileEntries,
                   baseTreeSha, newTreeSha, newCommitSha, stats, result,
                   resps, writes>>

\* lines 10-14 and 141-151: the ref read is answered
RefReadResponse(p, outcome) ==
    /\ pc[p] = "refRead"
    /\ \E r \in net[p] :
        /\ r.op = "refRead"
        /\ Answered(p, r, outcome, IF outcome = "ok" THEN ref ELSE Undefined)
        /\ IF outcome = "ok"
           THEN /\ latestCommitSha' = [latestCommitSha EXCEPT ![p] = ref]
                /\ BlobLoop(p, r, <<>>, ref)
           ELSE /\ latestCommitSha' = latestCommitSha
                /\ Reject(p, r, IF outcome = "transport" THEN "fetch failed"
                                ELSE IF outcome = "nonjson" THEN "SyntaxError"
                                ELSE "TypeError")
    /\ UNCHANGED <<storage, remote, params, token, fileEntries, baseTreeSha,
                   newTreeSha, newCommitSha, stats, result, writes>>

\* lines 31-40 and 151-161: a blob create is answered
BlobCreateResponse(p, outcome) ==
    /\ pc[p] = "blobCreate"
    /\ \E r \in net[p] :
        /\ r.op = "blobCreate"
        /\ LET blob == BlobObj(Base64Decode(r.content))
               blobSha == IF outcome = "ok" THEN ShaOf(blob) ELSE Undefined
               file == params[p].files[Len(fileEntries[p]) + 1]
               entries == Append(fileEntries[p],
                                 FileEntry(params[p].directory, file, blobSha))
           IN  /\ Answered(p, r, outcome, blobSha)
               /\ objs' = IF outcome = "ok" THEN Store(blob) ELSE objs
               /\ IF outcome \in {"ok", "error"}
                  THEN /\ fileEntries' = [fileEntries EXCEPT ![p] = entries]
                       /\ BlobLoop(p, r, entries, latestCommitSha[p])
                  ELSE /\ fileEntries' = fileEntries
                       /\ Reject(p, r, IF outcome = "transport"
                                       THEN "fetch failed" ELSE "SyntaxError")
    /\ UNCHANGED <<storage, ref, pushes, params, token, latestCommitSha,
                   baseTreeSha, newTreeSha, newCommitSha, stats, result,
                   writes>>

\* lines 162-169: the read of the tip commit is answered
CommitReadResponse(p, outcome) ==
    /\ pc[p] = "commitRead"
    /\ \E r \in net[p] :
        /\ r.op = "commitRead"
        /\ outcome = "ok" => IsKind(r.sha, "commit")
        /\ LET treeSha == IF outcome = "ok" THEN objs[r.sha].tree
                          ELSE Undefined
           IN  /\ Answered(p, r, outcome, treeSha)
               /\ IF outcome = "ok"
                  THEN /\ baseTreeSha' = [baseTreeSha EXCEPT ![p] = treeSha]
                       /\ Send(p, r, CreateTreeReq(treeSha, fileEntries[p]),
                               "treeCreate")
                  ELSE /\ baseTreeSha' = baseTreeSha
                       /\ Reject(p, r,
                                 IF outcome = "transport" THEN "fetch failed"
                                 ELSE IF outcome = "nonjson" THEN "SyntaxError"
                                 ELSE "TypeError")
    /\ UNCHANGED <<storage, remote, params, token, latestCommitSha,
                   fileEntries, newTreeSha, newCommitSha, stats, result,
                   writes>>

\* lines 57-66 and 169-172: the tree create is answered
TreeCreateResponse(p, outcome) ==
    /\ pc[p] = "treeCreate"
    /\ \E r \in net[p] :
        /\ r.op = "treeCreate"
        /\ outcome = "ok" =>
              /\ IsKind(r.base_tree, "tree")
              /\ \A i \in DOMAIN r.tree : IsKind(r.tree[i].sha, "blob")
        /\ LET tree == TreeObj(ApplyEntries(objs[r.base_tree].entries, r.tree))
               treeSha == IF outcome = "ok" THEN ShaOf(tree) ELSE Undefined
           IN  /\ Answered(p, r, outcome, treeSha)
               /\ objs' = IF outcome = "ok" THEN Store(tree) ELSE objs
               /\ IF outcome \in {"ok", "error"}
                  THEN /\ newTreeSha' = [newTreeSha EXCEPT ![p] = treeSha]
                       /\ Send(p, r,
                               CreateCommitReq(params[p].commitMsg, treeSha,
                                               latestCommitSha[p]),
                               "commitCreate")
                  ELSE /\ newTreeSha' = newTreeSha
                       /\ Reject(p, r, IF outcome = "transport"
                                       THEN "fetch failed" ELSE "SyntaxError")
    /\ UNCHANGED <<storage, ref, pushes, params, token, latestCommitSha,
                   fileEntries, baseTreeSha, newCommitSha, stats, result,
                   writes>>

\* lines 85-94 and 172-175: the commit create is answered
CommitCreateResponse(p, outcome) ==
    /\ pc[p] = "commitCreate"
    /\ \E r \in net[p] :
        /\ r.op = "commitCreate"
        /\ outcome = "ok" =>
              /\ IsKind(r.tree, "tree")
              /\ \A i \in DOMAIN r.parents : IsKind(r.parents[i], "commit")
        /\ LET commit == CommitObj(r.tree, r.parents, r.message)
               commitSha == IF outcome = "ok" THEN ShaOf(commit) ELSE Undefined
           IN  /\ Answered(p, r, outcome, commitSha)
               /\ objs' = IF outcome = "ok" THEN Store(commit) ELSE objs
               /\ IF outcome \in {"ok", "error"}
                  THEN /\ newCommitSha' = [newCommitSha EXCEPT ![p] = commitSha]
                       /\ Send(p, r, UpdateRefReq(commitSha), "refUpdate")
                  ELSE /\ newCommitSha' = newCommitSha
                       /\ Reject(p, r, IF outcome = "transport"
                                       THEN "fetch failed" ELSE "SyntaxError")
    /\ UNCHANGED <<storage, ref, pushes, params, token, latestCommitSha,
                   fileEntries, baseTreeSha, newTreeSha, stats, result,
                   writes>>

\* variant: a rejected fetch of the ref update is caught and ignored
RefUpdateResponseCaught(p, outcome) ==
    /\ pc[p] = "refUpdate"
    /\ outcome # "nonjson"
    /\ \E r \in net[p] :
        /\ r.op = "refUpdate"
        /\ outcome = "ok" =>
              /\ IsKind(r.sha, "commit")
              /\ IsDescendant(r.sha, ref)
        /\ Answered(p, r, outcome, IF outcome = "ok" THEN r.sha ELSE Undefined)
        /\ ref' = IF outcome = "ok" THEN r.sha ELSE ref
        /\ pc' = [pc EXCEPT ![p] = "getStats"]
        /\ net' = [net EXCEPT ![p] = @ \ {r}]
        /\ UNCHANGED <<calls, error>>
    /\ UNCHANGED <<storage, objs, pushes, params, locals, writes>>

\* variant: the code goes on only once the update has been accepted
RefUpdateResponseOnlyOk(p, outcome) ==
    /\ pc[p] = "refUpdate"
    /\ outcome = "ok"
    /\ \E r \in net[p] :
        /\ r.op = "refUpdate"
        /\ IsKind(r.sha, "commit")
        /\ IsDescendant(r.sha, ref)
        /\ Answered(p, r, outcome, r.sha)
        /\ ref' = r.sha
        /\ pc' = [pc EXCEPT ![p] = "getStats"]
        /\ net' = [net EXCEPT ![p] = @ \ {r}]
        /\ UNCHANGED <<calls, error>>
    /\ UNCHANGED <<storage, objs, pushes, params, locals, writes>>

\* variant: the update is forced ("force": true in the body)
RefUpdateResponseForced(p, outcome) ==
    /\ pc[p] = "refUpdate"
    /\ outcome # "nonjson"
    /\ \E r \in net[p] :
        /\ r.op = "refUpdate"
        /\ outcome = "ok" => IsKind(r.sha, "commit")
        /\ Answered(p, r, outcome, IF outcome = "ok" THEN r.sha ELSE Undefined)
        /\ ref' = IF outcome = "ok" THEN r.sha ELSE ref
        /\ IF outcome = "transport"
           THEN Reject(p, r, "fetch failed")
           ELSE /\ pc' = [pc EXCEPT ![p] = "getStats"]
                /\ net' = [net EXCEPT ![p] = @ \ {r}]
                /\ UNCHANGED <<calls, error>>
    /\ UNCHANGED <<storage, objs, pushes, params, locals, writes>>

\* variant: a non-success answer to the ref update is turned into a failure
RefUpdateResponseChecked(p, outcome) ==
    /\ pc[p] = "refUpdate"
    /\ outcome # "nonjson"
    /\ \E r \in net[p] :
        /\ r.op = "refUpdate"
        /\ outcome = "ok" =>
              /\ IsKind(r.sha, "commit")
              /\ IsDescendant(r.sha, ref)
        /\ Answered(p, r, outcome, IF outcome = "ok" THEN r.sha ELSE Undefined)
        /\ ref' = IF outcome = "ok" THEN r.sha ELSE ref
        /\ IF outcome # "ok"
           THEN Reject(p, r, "ref update failed")
           ELSE /\ pc' = [pc EXCEPT ![p] = "getStats"]
                /\ net' = [net EXCEPT ![p] = @ \ {r}]
                /\ UNCHANGED <<calls, error>>
    /\ UNCHANGED <<storage, objs, pushes, params, locals, writes>>

\* lines 108-115 and 175-178: the ref update is answered; the response is
\* neither parsed nor inspected (so what its body is makes no difference),
\* and the update is not forced
RefUpdateResponse(p, outcome) ==
    /\ pc[p] = "refUpdate"
    /\ outcome # "nonjson"
    /\ \E r \in net[p] :
        /\ r.op = "refUpdate"
        /\ outcome = "ok" =>
              /\ IsKind(r.sha, "commit")
              /\ IsDescendant(r.sha, ref)
        /\ Answered(p, r, outcome, IF outcome = "ok" THEN r.sha ELSE Undefined)
        /\ ref' = IF outcome = "ok" THEN r.sha ELSE ref
        /\ IF outcome = "transport"
           THEN Reject(p, r, "fetch failed")
           ELSE /\ pc' = [pc EXCEPT ![p] = "getStats"]
                /\ net' = [net EXCEPT ![p] = @ \ {r}]
                /\ UNCHANGED <<calls, error>>
    /\ UNCHANGED <<storage, objs, pushes, params, locals, writes>>

\* the stats object of the store, with a record for the problem
getAndInitializeStats(problemName) ==
    LET stored == IF "stats" \in DOMAIN storage THEN storage.stats
                  ELSE EmptyStats
    IN  [n \in DOMAIN stored \cup {problemName} |->
            IF n \in DOMAIN stored THEN stored[n]
            ELSE [lastCommitSha |-> Undefined]]

\* variant: the parent's SHA is recorded instead of the new commit's
GetStatsParentSha(p) ==
    /\ pc[p] = "getStats"
    /\ stats' = [stats EXCEPT ![p] =
                    [getAndInitializeStats(params[p].problemName)
                        EXCEPT ![params[p].problemName].lastCommitSha =
                                   latestCommitSha[p]]]
    /\ pc' = [pc EXCEPT ![p] = "setStats"]
    /\ UNCHANGED <<storage, remote, params, token, latestCommitSha,
                   fileEntries, baseTreeSha, newTreeSha, newCommitSha, result,
                   error, net, calls, resps, writes>>

\* lines 178-181: the stats are loaded, the SHA is recorded in them and the
\* write of the whole object is started
GetStats(p) ==
    /\ pc[p] = "getStats"
    /\ stats' = [stats EXCEPT ![p] =
                    [getAndInitializeStats(params[p].problemName)
                        EXCEPT ![params[p].problemName].lastCommitSha =
                                   newCommitSha[p]]]
    /\ pc' = [pc EXCEPT ![p] = "setStats"]
    /\ UNCHANGED <<storage, remote, params, token, latestCommitSha,
                   fileEntries, baseTreeSha, newTreeSha, newCommitSha, result,
                   error, net, calls, resps, writes>>

\* variant: the write lays the invocation's own record over the stats stored
\* at the time of the write
SetStatsMerging(p) ==
    /\ pc[p] = "setStats"
    /\ LET stored == IF "stats" \in DOMAIN storage THEN storage.stats
                     ELSE EmptyStats
           name == params[p].problemName
           merged == [n \in DOMAIN stored \cup {name} |->
                         IF n = name THEN stats[p][n] ELSE stored[n]]
       IN  storage' = [k \in DOMAIN storage \cup {"stats"} |->
                          IF k = "stats" THEN merged ELSE storage[k]]
    /\ writes' = Append(writes, [by |-> p, stats |-> stats[p]])
    /\ result' = [result EXCEPT ![p] = newCommitSha[p]]
    /\ pc' = [pc EXCEPT ![p] = "resolved"]
    /\ UNCHANGED <<remote, params, token, latestCommitSha, fileEntries,
                   baseTreeSha, newTreeSha, newCommitSha, stats, error, net,
                   calls, resps>>

\* lines 181-183: the write completes and the function returns
SetStats(p) ==
    /\ pc[p] = "setStats"
    /\ storage' = [k \in DOMAIN storage \cup {"stats"} |->
                      IF k = "stats" THEN stats[p] ELSE storage[k]]
    /\ writes' = Append(writes, [by |-> p, stats |-> stats[p]])
    /\ result' = [result EXCEPT ![p] = newCommitSha[p]]
    /\ pc' = [pc EXCEPT ![p] = "resolved"]
    /\ UNCHANGED <<remote, params, token, latestCommitSha, fileEntries,
                   baseTreeSha, newTreeSha, newCommitSha, stats, error, net,
                   calls, resps>>

\* another client of the repository commits on top of the branch tip while
\* an invocation is talking to the remote
ExternalPush ==
    /\ pushes < MaxPushes
    /\ \E p \in Procs : net[p] # {}
    /\ objs' = Append(objs, CommitObj(objs[ref].tree, <<ref>>, "other"))
    /\ ref' = Len(objs) + 1
    /\ pushes' = pushes + 1
    /\ UNCHANGED <<storage, pc, params, locals, error, net, calls, resps,
                   writes>>

Next ==
    \/ \E p \in Procs : GetToken(p)
    \/ \E p \in Procs, outcome \in Outcomes : RefReadResponse(p, outcome)
    \/ \E p \in Procs, outcome \in Outcomes : BlobCreateResponse(p, outcome)
    \/ \E p \in Procs, outcome \in Outcomes : CommitReadResponse(p, outcome)
    \/ \E p \in Procs, outcome \in Outcomes : TreeCreateResponse(p, outcome)
    \/ \E p \in Procs, outcome \in Outcomes : CommitCreateResponse(p, outcome)
    \/ \E p \in Procs, outcome \in Outcomes : RefUpdateResponse(p, outcome)
    \/ \E p \in Procs : GetStats(p)
    \/ \E p \in Procs : SetStats(p)
    \/ ExternalPush

Spec == Init /\ [][Next]_vars

\* every step of invocation p: an answer to its pending storage access or
\* fetch, and the code that runs on it
Step(p) ==
    \/ GetToken(p)
    \/ \E outcome \in Outcomes :
          \/ RefReadResponse(p, outcome)
          \/ BlobCreateResponse(p, outcome)
          \/ CommitReadResponse(p, outcome)
          \/ TreeCreateResponse(p, outcome)
          \/ CommitCreateResponse(p, outcome)
          \/ RefUpdateResponse(p, outcome)
    \/ GetStats(p)
    \/ SetStats(p)

\* one call with a list of up to MaxFiles files, each either encodable or
\* not, with or without a token in the store
LiveFiles ==
    { [filename |-> "README.md", content |-> <<65>>],
      [filename |-> "sol.py", content |-> <<55357>>] }

InitLive ==
    /\ Init
    /\ "stats" \in DOMAIN storage
    /\ "leethub_token" \in DOMAIN storage => storage.leethub_token # ""
    /\ \A i \in DOMAIN params[1].files : params[1].files[i] \in LiveFiles

\* every storage access and every fetch is answered in the end
LiveSpec == InitLive /\ [][Next]_vars /\ \A p \in Procs : WF_vars(Step(p))

\* two calls of commitSolutionFiles under way at once, for two problems, on
\* the same repository and branch, each with one file
ConcParams(p) ==
    [problemName |-> ProblemOf(p), directory |-> Directory,
     files |-> <<[filename |-> IF p = 1 THEN "README.md" ELSE "sol.py",
                  content |-> <<65>>]>>,
     commitMsg |-> CommitMsg]

InitConc ==
    /\ storage \in {MakeStorage(keys, "ghp_token", OldStats) :
                       keys \in {{"leethub_token"}, {"leethub_token", "stats"}}}
    /\ objs = InitObjs
    /\ ref = InitRef
    /\ pushes = 0
    /\ pc = [p \in Procs |-> "getToken"]
    /\ params = [p \in Procs |-> ConcParams(p)]
    /\ token = [p \in Procs |-> ""]
    /\ latestCommitSha = [p \in Procs |-> Undefined]
    /\ fileEntries = [p \in Procs |-> <<>>]
    /\ baseTreeSha = [p \in Procs |-> Undefined]
    /\ newTreeSha = [p \in Procs |-> Undefined]
    /\ newCommitSha = [p \in Procs |-> Undefined]
    /\ stats = [p \in Procs |-> EmptyStats]
    /\ result = [p \in Procs |-> Undefined]
    /\ error = [p \in Procs |-> ""]
    /\ net = [p \in Procs |-> {}]
    /\ calls = [p \in Procs |-> <<>>]
    /\ resps = [p \in Procs |-> <<>>]
    /\ writes = <<>>

SpecConc == InitConc /\ [][Next]_vars

TypeOK ==
    /\ pc \in [Procs -> {"idle", "getToken", "refRead", "blobCreate",
                         "commitRead", "treeCreate", "commitCreate",
                         "refUpdate", "getStats", "setStats", "resolved",
                         "rejected"}]
    /\ ref \in DOMAIN objs /\ objs[ref].kind = "commit"
    /\ \A p \in Procs : Len(fileEntries[p]) <= Len(params[p].files)

\* ------------------------------------------------------------ claim helpers
Running == {p \in Procs : pc[p] # "idle"}
TokenPresent ==
    "leethub_token" \in DOMAIN storage /\ storage.leethub_token # ""
AllOk(p) == \A i \in DOMAIN resps[p] : resps[p][i].outcome = "ok"
OpsOf(log) == [i \in DOMAIN log |-> log[i].op]
\* the answers of invocation p to its requests of kind op
Answers(p, op) == {i \in DOMAIN resps[p] : resps[p][i].op = op}
Failed(p, ops) ==
    \E i \in DOMAIN resps[p] :
        resps[p][i].op \in ops /\ resps[p][i].outcome # "ok"
PathOf(p, i) == params[p].directory \o "/" \o params[p].files[i].filename
\* the tree of commit c holds the content of file i of invocation p at its path
TreeHoldsFile(c, p, i) ==
    /\ IsKind(c, "commit")
    /\ IsKind(objs[c].tree, "tree")
    /\ \E e \in objs[objs[c].tree].entries :
          /\ e[1] = PathOf(p, i)
          /\ IsKind(e[2], "blob")
          /\ Utf8Decode(objs[e[2]].bytes) = params[p].files[i].content
NameOccursOnce(p, i) ==
    \A j \in DOMAIN params[p].files :
        j # i => params[p].files[j].filename # params[p].files[i].filename
ExpectedOps(n) ==
    <<"refRead">> \o [i \in 1..n |-> "blobCreate"]
        \o <<"commitRead", "treeCreate", "commitCreate", "refUpdate">>

\* ------------------------------------------------------------------ claims
\* C1 as stated: when the token is present and every call is answered
\* successfully, the value returned is the SHA of the commit made by the
\* commit-create call, and that commit's tree holds every input file at
\* directory/filename with the input content.
C1_AsClaimed ==
    \A p \in Running :
        (pc[p] = "resolved" /\ AllOk(p)) =>
            /\ \E i \in Answers(p, "commitCreate") :
                  result[p] = resps[p][i].sha
            /\ \A i \in DOMAIN params[p].files : TreeHoldsFile(result[p], p, i)

\* C1 amended: the same, for every input file whose filename no other file
\* of the list carries.
C1_ReturnedCommitHoldsFiles ==
    \A p \in Running :
        (pc[p] = "resolved" /\ AllOk(p)) =>
            /\ \E i \in Answers(p, "commitCreate") :
                  result[p] = resps[p][i].sha
            /\ \A i \in DOMAIN params[p].files :
                  NameOccursOnce(p, i) => TreeHoldsFile(result[p], p, i)

C1_Witness ==
    /\ pc[1] = "resolved" /\ AllOk(1)
    /\ Len(params[1].files) = 2
    /\ params[1].files[1].filename # params[1].files[2].filename
    /\ params[1].files[1].content = <<233, 20013, 55357, 56832, 65, 66>>
    /\ params[1].files[2].content = <<65>>

\* C2: a successful invocation with N files has issued exactly 1 ref read,
\* N blob creates (the i-th for the i-th file), 1 commit read, 1 tree
\* create, 1 commit create and 1 ref update, in that order and nothing
\* else; at every moment the calls issued so far are a prefix of that list.
C2_CallSequence ==
    \A p \in Running :
        LET n == Len(params[p].files)
            ops == OpsOf(calls[p])
        IN  /\ Len(ops) <= n + 5
            /\ ops = SubSeq(ExpectedOps(n), 1, Len(ops))
            /\ \A i \in DOMAIN calls[p] :
                  calls[p][i].op = "blobCreate" =>
                      calls[p][i].content
                          = EncodeContent(params[p].files[i - 1].content)
            /\ pc[p] = "resolved" => ops = ExpectedOps(n)

C2_Witness ==
    /\ pc[1] = "resolved" /\ AllOk(1)
    /\ Len(params[1].files) = 2
    /\ Len(calls[1]) = 7

\* C3: with leethub_token absent or empty the invocation can only fail with
\* the missing-credential error, issues no network call and leaves the
\* stats store unwritten.
C3_MissingToken ==
    ~TokenPresent =>
        /\ writes = <<>>
        /\ \A p \in Running :
              /\ pc[p] \in {"getToken", "rejected"}
              /\ pc[p] = "rejected" => error[p] = "leethub token is undefined"
              /\ calls[p] = <<>>
              /\ net[p] = {}

C3_Witness ==
    /\ "leethub_token" \notin DOMAIN storage
    /\ pc[1] = "rejected"
    /\ error[1] = "leethub token is undefined"
    /\ calls[1] = <<>>

\* the calls before the ref update
EarlyOps == {"refRead", "blobCreate", "commitRead", "treeCreate",
             "commitCreate"}
RecordedSha(p) ==
    IF "stats" \in DOMAIN storage
       /\ params[p].problemName \in DOMAIN storage.stats
    THEN storage.stats[params[p].problemName].lastCommitSha
    ELSE Undefined

\* C4 as stated: once a ref read, blob create, commit read, tree create or
\* commit create of an invocation has failed (rejected fetch or non-success
\* answer), that invocation never issues the ref update and never moves the
\* branch ref.
C4_AsClaimed ==
    \A p \in Running :
        Failed(p, EarlyOps) =>
            /\ \A i \in DOMAIN calls[p] : calls[p][i].op # "refUpdate"
            /\ \A i \in Answers(p, "refUpdate") : resps[p][i].outcome # "ok"

\* C5 as stated: a rejected fetch or a non-success answer of a ref read,
\* blob create, commit read, tree create or commit create makes the
\* invocation reject; it never resolves after one.
C5_AsClaimed ==
    \A p \in Running : Failed(p, EarlyOps) => pc[p] # "resolved"

C7_ParentIsTipReadAtStart ==
    \A p \in Running :
        \A i \in DOMAIN calls[p] :
            calls[p][i].op = "commitCreate" =>
                /\ resps[p][1].op = "refRead"
                /\ resps[p][1].outcome = "ok"
                /\ calls[p][i].parents = <<resps[p][1].sha>>

C7_Witness ==
    /\ pc[1] = "commitCreate"
    /\ pushes = 1
    /\ ref # latestCommitSha[1]
    /\ \E r \in net[1] : r.op = "commitCreate"
                         /\ r.parents = <<latestCommitSha[1]>>

\* C8: every tree-create request carries as base_tree the tree SHA returned
\* by the commit read of the same invocation, which is the tree of the
\* commit the ref read returned, for any number of files.
C8_BaseTreeIsTreeOfTipCommit ==
    \A p \in Running :
        \A i \in DOMAIN calls[p] :
            calls[p][i].op = "treeCreate" =>
                /\ resps[p][i - 1].op = "commitRead"
                /\ resps[p][i - 1].outcome = "ok"
                /\ calls[p][i].base_tree = resps[p][i - 1].sha
                /\ calls[p][i].base_tree = objs[resps[p][1].sha].tree

C8_Witness ==
    /\ pc[1] = "treeCreate"
    /\ params[1].files = <<>>
    /\ \E r \in net[1] : r.op = "treeCreate" /\ r.tree = <<>>
                         /\ r.base_tree = objs[latestCommitSha[1]].tree

\* C9: after the remote has answered the ref update of an invocation with a
\* non-success response, the invocation does not reject: it goes on to
\* record newCommitSha in the stats and resolves with it.
C9_RejectedRefUpdateIsSilent ==
    \A p \in Running :
        (\E i \in Answers(p, "refUpdate") :
              resps[p][i].outcome = "error") =>
            /\ pc[p] \in {"getStats", "setStats", "resolved"}
            /\ pc[p] \in {"setStats", "resolved"} =>
                  stats[p][params[p].problemName].lastCommitSha
                      = newCommitSha[p]
            /\ pc[p] = "resolved" =>
                  /\ result[p] = newCommitSha[p]
                  /\ RecordedSha(p) = newCommitSha[p]

\* the recorded SHA names a commit that the branch does not contain
C9_Witness ==
    /\ pc[1] = "resolved"
    /\ \E i \in Answers(1, "refUpdate") : resps[1][i].outcome = "error"
    /\ IsKind(result[1], "commit")
    /\ RecordedSha(1) = result[1]
    /\ ~IsDescendant(ref, result[1])

\* C10: an invocation has at most one request in flight; a request is
\* issued only when every earlier request of the invocation has been
\* answered, answers come in the order of the requests, and the blob create
\* in flight is the one of the first file without an entry.
C10_OneRequestInFlight ==
    \A p \in Running :
        /\ Cardinality(net[p]) <= 1
        /\ Len(calls[p]) - Len(resps[p]) = Cardinality(net[p])
        /\ \A i \in DOMAIN resps[p] : resps[p][i].op = calls[p][i].op
        /\ \A r \in net[p] :
              /\ r = calls[p][Len(calls[p])]
              /\ r.op = "blobCreate" =>
                    /\ Len(fileEntries[p]) = Len(calls[p]) - 2
                    /\ r.content = EncodeContent(
                           params[p].files[Len(fileEntries[p]) + 1].content)

C10_Witness ==
    /\ pc[1] = "blobCreate"
    /\ Len(params[1].files) = 2
    /\ Len(fileEntries[1]) = 1
    /\ Cardinality(net[1]) = 1
    /\ Len(resps[1]) = 2

\* C11 as stated: each tree entry carries the SHA the blob create of the same
\* file returned, the commit create carries the SHA the tree create
\* returned, the ref update carries the SHA the commit create returned, and
\* each of these SHAs exists (names the object made by the earlier stage)
\* when the request that carries it is issued.
C11_AsClaimed ==
    \A p \in Running :
        \A i \in DOMAIN calls[p] :
            /\ calls[p][i].op = "treeCreate" =>
                  \A k \in DOMAIN calls[p][i].tree :
                      /\ resps[p][k + 1].op = "blobCreate"
                      /\ calls[p][i].tree[k].sha = resps[p][k + 1].sha
                      /\ IsKind(calls[p][i].tree[k].sha, "blob")
            /\ calls[p][i].op = "commitCreate" =>
                  /\ resps[p][i - 1].op = "treeCreate"
                  /\ calls[p][i].tree = resps[p][i - 1].sha
                  /\ IsKind(calls[p][i].tree, "tree")
            /\ calls[p][i].op = "refUpdate" =>
                  /\ resps[p][i - 1].op = "commitCreate"
                  /\ calls[p][i].sha = resps[p][i - 1].sha
                  /\ IsKind(calls[p][i].sha, "commit")

\* C12: the entries sent to the tree create are one per input file, in list
\* order; the k-th has the path directory/filename of the k-th file, mode
\* 100644, type blob and the SHA returned by the k-th blob create (the blob
\* of that file's content when that create succeeded); files with the same
\* name or the same content keep their own entries.
C12_EntriesMirrorFiles ==
    \A p \in Running :
        \A i \in DOMAIN calls[p] :
            calls[p][i].op = "treeCreate" =>
                /\ Len(calls[p][i].tree) = Len(params[p].files)
                /\ \A k \in DOMAIN calls[p][i].tree :
                      /\ calls[p][i].tree[k] =
                             [path |-> PathOf(p, k), mode |-> "100644",
                              type |-> "blob", sha |-> resps[p][k + 1].sha]
                      /\ resps[p][k + 1].outcome = "ok" =>
                            /\ IsKind(resps[p][k + 1].sha, "blob")
                            /\ objs[resps[p][k + 1].sha].bytes
                                   = Utf8Encode(params[p].files[k].content)

\* two files with the same name and the same content: two entries
C12_Witness ==
    /\ pc[1] = "treeCreate"
    /\ Len(params[1].files) = 2
    /\ params[1].files[1] = params[1].files[2]
    /\ \E r \in net[1] : /\ r.op = "treeCreate"
                         /\ Len(r.tree) = 2
                         /\ r.tree[1] = r.tree[2]
                         /\ IsKind(r.tree[1].sha, "blob")

\* C13: the stats steps of two invocations interleave freely; the stats
\* object in the store is always the one handed to the latest storage set,
\* each set writes the object its invocation loaded earlier with its own
\* lastCommitSha put in, so what another invocation wrote in between is gone.
C13_LastWriteWins ==
    /\ writes # <<>> =>
          /\ "stats" \in DOMAIN storage
          /\ storage.stats = writes[Len(writes)].stats
    /\ \A i \in DOMAIN writes :
          LET p == writes[i].by
          IN  /\ writes[i].stats = stats[p]
              /\ stats[p][params[p].problemName].lastCommitSha
                     = newCommitSha[p]

\* both invocations read the stats before either wrote them; invocation 2
\* wrote last and the SHA recorded by invocation 1 is lost
C13_Witness ==
    /\ pc[1] = "resolved" /\ pc[2] = "resolved"
    /\ IsKind(result[1], "commit") /\ IsKind(result[2], "commit")
    /\ Len(writes) = 2
    /\ writes[1].by = 1 /\ writes[2].by = 2
    /\ RecordedSha(2) = result[2]
    /\ RecordedSha(1) # result[1]

\* d is c or has c among its ancestors, in the object store `store`
RECURSIVE DescendsIn(_, _, _)
DescendsIn(store, d, c) ==
    \/ d = c
    \/ /\ d \in DOMAIN store
       /\ store[d].kind = "commit"
       /\ \E i \in DOMAIN store[d].parents :
             DescendsIn(store, store[d].parents[i], c)

SameTip ==
    latestCommitSha[1] # Undefined /\ latestCommitSha[1] = latestCommitSha[2]
RefUpdateAnswer(p, outcome) ==
    \E i \in Answers(p, "refUpdate") : resps[p][i].outcome = outcome

C14_RaceState ==
    SameTip =>
        /\ ~(RefUpdateAnswer(1, "ok") /\ RefUpdateAnswer(2, "ok"))
        /\ \A p \in Procs :
              /\ \A i \in DOMAIN calls[p] :
                    calls[p][i].op = "commitCreate" =>
                        calls[p][i].parents = <<latestCommitSha[1]>>
              /\ RefUpdateAnswer(p, "error") =>
                    /\ pc[p] # "rejected"
                    /\ pc[p] = "resolved" =>
                          /\ result[p] = newCommitSha[p]
                          /\ IsKind(result[p], "commit") =>
                                ~IsDescendant(ref, result[p])

\* C14: when two concurrent invocations have read the same tip, the commits
\* both create have that tip as their single parent, at most one of the two
\* ref updates takes effect, the invocation whose update was refused still
\* resolves with its own commit, which the branch does not contain; and the
\* branch ref only ever moves to a descendant of its current value.
C14_NonForcedRace ==
    /\ []C14_RaceState
    /\ [][DescendsIn(objs', ref', ref)]_vars

C14_Witness ==
    /\ SameTip
    /\ pc[1] = "resolved" /\ pc[2] = "resolved"
    /\ RefUpdateAnswer(1, "ok") /\ RefUpdateAnswer(2, "error")
    /\ pushes = 0
    /\ ref = result[1]
    /\ IsKind(result[2], "commit")
    /\ objs[result[1]].parents = <<latestCommitSha[1]>>
    /\ objs[result[2]].parents = <<latestCommitSha[1]>>
    /\ ~IsDescendant(ref, result[2])

Finished(p) == pc[p] \in {"resolved", "rejected"}

\* C15: when every storage access and every fetch of an invocation is
\* answered in the end, the invocation finishes, resolved or rejected; and
\* an invocation with a request pending moves on only through the answer to
\* that request, so it is never finished while a request is unanswered.
C15_FinishesIffAnswered ==
    /\ \A p \in Procs : (pc[p] # "idle") ~> Finished(p)
    /\ [](\A p \in Procs :
             Finished(p) => net[p] = {} /\ Len(resps[p]) = Len(calls[p]))
    /\ [][\A p \in Procs :
             (net[p] # {} /\ (pc'[p] # pc[p] \/ calls'[p] # calls[p]))
                 => /\ Len(resps'[p]) = Len(resps[p]) + 1
                    /\ resps'[p][Len(resps'[p])].op
                           = calls[p][Len(calls[p])].op]_vars

C15_Witness ==
    /\ pc[1] = "resolved"
    /\ Len(params[1].files) = MaxFiles
    /\ Len(resps[1]) = MaxFiles + 5
    /\ net[1] = {}

RefUpdateCompleted(p) ==
    \E i \in Answers(p, "refUpdate") : resps[p][i].outcome # "transport"

\* C16: an invocation reaches its stats steps and writes the stats only
\* after its ref update has been answered; an invocation that rejected (at
\* the token check or at any call up to a rejected fetch of the ref update)
\* has written nothing, and the store changes only in the step in which an
\* invocation past its ref update completes its storage set.
C16_StatsWrittenAfterRefUpdate ==
    /\ [](\A p \in Running :
             /\ pc[p] \in {"getStats", "setStats", "resolved"}
                    => RefUpdateCompleted(p)
             /\ \A i \in DOMAIN writes :
                    writes[i].by = p => RefUpdateCompleted(p)
             /\ pc[p] = "rejected" =>
                    \A i \in DOMAIN writes : writes[i].by # p)
    /\ [][storage' # storage =>
             \E p \in Procs : /\ pc[p] = "setStats"
                              /\ pc'[p] = "resolved"
                              /\ RefUpdateCompleted(p)
                              /\ Len(writes') = Len(writes) + 1]_vars

C16_Witness ==
    /\ pc[1] = "rejected"
    /\ Len(resps[1]) = Len(params[1].files) + 5
    /\ resps[1][Len(resps[1])].op = "refUpdate"
    /\ resps[1][Len(resps[1])].outcome = "transport"
    /\ writes = <<>>
    /\ "stats" \notin DOMAIN storage

====
